---- MODULE Spec2Model ----
(***************************************************************************)
(* Model of clean_tradeshow.py: the count and date-range normalizers, the  *)
(* page extractor (parse_html_bytes) and the batch aggregator (parse_many).*)
(*                                                                         *)
(* Text is a sequence of one-character strings.  Python's None is the      *)
(* value None for text and NoInt for an optional int or ISO date (counts   *)
(* and dates are never negative).  An ISO date string 'YYYY-MM-DD' is the  *)
(* number YYYYMMDD: both are fixed-width and zero-padded, so the string    *)
(* order pandas sorts by is the numeric order.                             *)
(***************************************************************************)
EXTENDS Integers, Sequences, FiniteSets

VARIABLES ctxt, cres, dtxt, dres, page, pres, files, out, prev

vars == <<ctxt, cres, dtxt, dres, page, pres, files, out, prev>>

\* ------------------------------------------------------------------ bounds
MaxCountLen == 4
MaxRows == 3
MaxFiles == 2
MaxPageRows == 3

\* ------------------------------------------------------------- characters
NoInt == -1
None == <<"<None>">>
Pending == [st |-> "pending"]
Returned(v) == [st |-> "ok", val |-> v]
Raised(e) == [st |-> "raised", exc |-> e]

Digits == <<"0", "1", "2", "3", "4", "5", "6", "7", "8", "9">>
Lowers == <<"a", "b", "c", "d", "e", "f", "g", "h", "i", "j", "k", "l", "m",
            "n", "o", "p", "q", "r", "s", "t", "u", "v", "w", "x", "y", "z">>
Uppers == <<"A", "B", "C", "D", "E", "F", "G", "H", "I", "J", "K", "L", "M",
            "N", "O", "P", "Q", "R", "S", "T", "U", "V", "W", "X", "Y", "Z">>
Spaces == {" ", "\t", "\n"}

IsDigit(c) == \E i \in 1..10 : Digits[i] = c
DigitVal(c) == (CHOOSE i \in 1..10 : Digits[i] = c) - 1
IsUpperLetter(c) == \E i \in 1..26 : Uppers[i] = c

\* str.lower() / str.upper(), one character
LowerChar(c) == IF \E i \in 1..26 : Uppers[i] = c
                THEN Lowers[CHOOSE i \in 1..26 : Uppers[i] = c] ELSE c
UpperChar(c) == IF \E i \in 1..26 : Lowers[i] = c
                THEN Uppers[CHOOSE i \in 1..26 : Lowers[i] = c] ELSE c
Lower(s) == [i \in 1..Len(s) |-> LowerChar(s[i])]
Upper(s) == [i \in 1..Len(s) |-> UpperChar(s[i])]

\* re.sub of a character class by '': drop every character in cs
RECURSIVE Remove(_, _)
Remove(s, cs) ==
    IF s = <<>> THEN <<>>
    ELSE IF Head(s) \in cs THEN Remove(Tail(s), cs)
    ELSE <<Head(s)>> \o Remove(Tail(s), cs)

\* str.strip()
RECURSIVE LStrip(_)
LStrip(s) == IF s # <<>> /\ Head(s) \in Spaces THEN LStrip(Tail(s)) ELSE s
RECURSIVE RStrip(_)
RStrip(s) == IF s # <<>> /\ s[Len(s)] \in Spaces
             THEN RStrip(SubSeq(s, 1, Len(s) - 1)) ELSE s
Strip(s) == RStrip(LStrip(s))

AllDigits(s) == Len(s) > 0 /\ \A i \in 1..Len(s) : IsDigit(s[i])

\* int() of a digit string
RECURSIVE ToInt(_)
ToInt(s) == IF s = <<>> THEN 0
            ELSE 10 * ToInt(SubSeq(s, 1, Len(s) - 1)) + DigitVal(s[Len(s)])

RECURSIVE Pow10(_)
Pow10(n) == IF n = 0 THEN 1 ELSE 10 * Pow10(n - 1)

\* ------------------------------------------------------------ _parse_count
\* \d+(?:\.\d+)? over the whole of n
IsNum(n) ==
    \/ AllDigits(n)
    \/ \E p \in 2..(Len(n) - 1) :
          /\ n[p] = "."
          /\ AllDigits(SubSeq(n, 1, p - 1))
          /\ AllDigits(SubSeq(n, p + 1, Len(n)))

\* float(n) as the exact fraction <<numerator, denominator>>; the texts of
\* CountTexts have too few digits for the float to round differently
NumFrac(n) ==
    IF AllDigits(n) THEN <<ToInt(n), 1>>
    ELSE LET p == CHOOSE q \in 2..(Len(n) - 1) : n[q] = "."
             f == SubSeq(n, p + 1, Len(n))
         IN <<ToInt(SubSeq(n, 1, p - 1)) * Pow10(Len(f)) + ToInt(f), Pow10(Len(f))>>

\* int(round(num / den)): Python 3 rounds a half to the even neighbour
RoundHalfEven(num, den) ==
    LET q == num \div den
        r == num % den
    IN IF 2 * r < den THEN q
       ELSE IF 2 * r > den THEN q + 1
       ELSE IF q % 2 = 0 THEN q ELSE q + 1

\* re.findall(r'\d+', part)[0]: the first maximal run of digits
FirstDigits(part) ==
    LET a == CHOOSE i \in 1..Len(part) :
                 IsDigit(part[i]) /\ \A j \in 1..(i - 1) : ~IsDigit(part[j])
        b == CHOOSE j \in a..Len(part) :
                 /\ \A k \in a..j : IsDigit(part[k])
                 /\ (j = Len(part) \/ ~IsDigit(part[j + 1]))
    IN SubSeq(part, a, b)

UnitMult(u) == IF u = "k" THEN 1000 ELSE IF u = "m" THEN 1000000 ELSE 1

_to_num(part) ==
    IF part = <<>> THEN NoInt
    ELSE IF IsNum(part)
         THEN RoundHalfEven(NumFrac(part)[1], NumFrac(part)[2])
    ELSE IF Len(part) >= 2 /\ part[Len(part)] \in {"k", "m"}
            /\ IsNum(SubSeq(part, 1, Len(part) - 1))
         THEN LET f == NumFrac(SubSeq(part, 1, Len(part) - 1))
              IN RoundHalfEven(f[1] * UnitMult(part[Len(part)]), f[2])
    ELSE IF \E i \in 1..Len(part) : IsDigit(part[i])
         THEN ToInt(FirstDigits(part))
    ELSE NoInt

\* s = re.sub(r'[\s,~+]', '', txt.lower())
CountClean(txt) == Remove(Lower(txt), Spaces \cup {",", "~", "+"})

\* re.match(r'(.+?)-(.+)$', s): the lazy first group ends at the first '-'
\* that has a character on both sides
IsRange(s) == \E i \in 2..(Len(s) - 1) : s[i] = "-"
RangeCut(s) == CHOOSE i \in 2..(Len(s) - 1) :
                   s[i] = "-" /\ \A j \in 2..(i - 1) : s[j] # "-"
RangeLeft(s) == SubSeq(s, 1, RangeCut(s) - 1)
RangeRight(s) == SubSeq(s, RangeCut(s) + 1, Len(s))

\* Python truthiness of an optional int: None and 0 are false
Truthy(n) == n # NoInt /\ n # 0

\* int((a + b) / 2) if a and b else (a or b)
Midpoint(a, b) ==
    IF Truthy(a) /\ Truthy(b) THEN (a + b) \div 2
    ELSE IF Truthy(a) THEN a ELSE b

_parse_count(txt) ==
    IF txt = None \/ txt = <<>> THEN NoInt
    ELSE LET s == CountClean(txt)
         IN IF IsRange(s)
            THEN Midpoint(_to_num(RangeLeft(s)), _to_num(RangeRight(s)))
            ELSE _to_num(s)

\* ------------------------------------------------------- count specification
CountChars == {"0", "1", "5", "k", "K", "m", "-", ".", "x", "+", " "}

RECURSIVE SeqsUpTo(_, _)
SeqsUpTo(S, n) ==
    IF n = 0 THEN {<<>>}
    ELSE LET shorter == SeqsUpTo(S, n - 1)
         IN shorter \cup {Append(s, c) : s \in {t \in shorter : Len(t) = n - 1}, c \in S}

CountTexts == SeqsUpTo(CountChars, MaxCountLen)

InitCount ==
    /\ ctxt \in CountTexts
    /\ cres = Pending
    /\ dtxt = <<>> /\ dres = Pending
    /\ page = <<>> /\ pres = Pending
    /\ files = <<>> /\ out = Pending /\ prev = Pending

ParseCount ==
    /\ cres = Pending
    /\ cres' = Returned(_parse_count(ctxt))
    /\ UNCHANGED <<ctxt, dtxt, dres, page, pres, files, out, prev>>

NextCount == ParseCount

SpecCount == InitCount /\ [][NextCount]_vars

\* -------------------------------------------------------- _parse_date_part
\* MONTHS: the token at position i maps to month number i
MONTHS == << <<"J", "A", "N">>, <<"F", "E", "B">>, <<"M", "A", "R">>,
             <<"A", "P", "R">>, <<"M", "A", "Y">>, <<"J", "U", "N">>,
             <<"J", "U", "L">>, <<"A", "U", "G">>, <<"S", "E", "P">>,
             <<"O", "C", "T">>, <<"N", "O", "V">>, <<"D", "E", "C">> >>

\* MONTHS.get(tok)
MonthGet(tok) == IF \E i \in 1..12 : MONTHS[i] = tok
                 THEN CHOOSE i \in 1..12 : MONTHS[i] = tok ELSE NoInt

\* (\d{1,2})(?:/(\d{2,4}))?$ over r: the day alone, or day '/' year
DayOnly(r) == Len(r) \in 1..2 /\ AllDigits(r)
DayYearCuts(r) == {p \in 2..3 : /\ p < Len(r)
                                /\ r[p] = "/"
                                /\ AllDigits(SubSeq(r, 1, p - 1))
                                /\ Len(r) - p \in 2..4
                                /\ AllDigits(SubSeq(r, p + 1, Len(r)))}

\* re.match(r'([A-Z]{3})/(\d{1,2})(?:/(\d{2,4}))?$', t)
PartMatches(t) ==
    /\ Len(t) >= 5
    /\ \A i \in 1..3 : IsUpperLetter(t[i])
    /\ t[4] = "/"
    /\ (DayOnly(SubSeq(t, 5, Len(t))) \/ DayYearCuts(SubSeq(t, 5, Len(t))) # {})

\* y = int(yr); if y < 100: y += 2000
YearOf(yr) == IF ToInt(yr) < 100 THEN ToInt(yr) + 2000 ELSE ToInt(yr)

\* t = part.strip().upper().replace(' ', '')
PartClean(part) == Remove(Upper(Strip(part)), {" "})

\* the triple (mon, day, y)
_parse_date_part(part) ==
    IF part = None \/ part = <<>> THEN <<NoInt, NoInt, NoInt>>
    ELSE LET t == PartClean(part)
         IN IF ~PartMatches(t) THEN <<NoInt, NoInt, NoInt>>
            ELSE LET r == SubSeq(t, 5, Len(t))
                     mon == MonthGet(SubSeq(t, 1, 3))
                 IN IF DayOnly(r) THEN <<mon, ToInt(r), NoInt>>
                    ELSE LET p == CHOOSE q \in DayYearCuts(r) : TRUE
                         IN <<mon, ToInt(SubSeq(r, 1, p - 1)),
                              YearOf(SubSeq(r, p + 1, Len(r)))>>

\* ------------------------------------------------------- _parse_date_range
NoDate == <<0, 0, 0>>

IsLeap(y) == (y % 4 = 0 /\ y % 100 # 0) \/ y % 400 = 0
DaysInMonth(y, m) ==
    IF m = 2 THEN (IF IsLeap(y) THEN 29 ELSE 28)
    ELSE IF m \in {4, 6, 9, 11} THEN 30 ELSE 31

\* datetime.date(y, m, d) accepts the triple; otherwise it raises ValueError
ValidDate(y, m, d) ==
    /\ y \in 1..9999
    /\ m \in 1..12
    /\ d \in 1..DaysInMonth(y, m)

\* parts = t.split('-'); parts[0], and parts[1] when there is one
HasDash(t) == \E i \in 1..Len(t) : t[i] = "-"
FirstDash(t) == CHOOSE i \in 1..Len(t) : t[i] = "-" /\ \A j \in 1..(i - 1) : t[j] # "-"
StartPart(t) == IF HasDash(t) THEN SubSeq(t, 1, FirstDash(t) - 1) ELSE t
EndPart(t) ==
    IF ~HasDash(t) THEN None
    ELSE LET rest == SubSeq(t, FirstDash(t) + 1, Len(t))
         IN IF HasDash(rest) THEN SubSeq(rest, 1, FirstDash(rest) - 1) ELSE rest

\* t = re.sub(r'\s+', '', txt.upper())
RangeClean(txt) == Remove(Upper(txt), Spaces)

\* yr = ey or sy
ResolveYear(sy, ey) == IF Truthy(ey) THEN ey ELSE sy

\* date(yr, m, d) if (yr and m and d) else None
Wanted(yr, m, d) == Truthy(yr) /\ Truthy(m) /\ Truthy(d)
MakeDate(yr, m, d) == IF Wanted(yr, m, d) THEN <<yr, m, d>> ELSE NoDate

\* the pair (sdte, edte), or the ValueError date() raises
_parse_date_range(txt) ==
    IF txt = None \/ txt = <<>> THEN Returned(<<NoDate, NoDate>>)
    ELSE LET t == RangeClean(txt)
             s == _parse_date_part(StartPart(t))
             e == _parse_date_part(EndPart(t))
             yr == ResolveYear(s[3], e[3])
         IN IF Wanted(yr, s[1], s[2]) /\ ~ValidDate(yr, s[1], s[2])
            THEN Raised("ValueError")
            ELSE IF Wanted(yr, e[1], e[2]) /\ ~ValidDate(yr, e[1], e[2])
            THEN Raised("ValueError")
            ELSE Returned(<<MakeDate(yr, s[1], s[2]), MakeDate(yr, e[1], e[2])>>)

\* -------------------------------------------------------- date specification
MonthToks == {<<"A", "U", "G">>, <<"F", "E", "B">>, <<"D", "E", "C">>,
              <<"J", "A", "N">>, <<"X", "Y", "Z">>, <<"a", "u", "g">>}
DayToks == {<<"0">>, <<"2">>, <<"2", "2">>, <<"2", "9">>, <<"3", "0">>, <<"3", "1">>}
YearToks == {<<"2", "5">>, <<"2", "0", "2", "4">>, <<"2", "0", "2", "5">>}
JunkParts == {<<>>, <<"T", "B", "D">>, <<"A", "U", "G", "2", "2">>}
DateSeps == {<<"-">>, <<" ", "-", " ">>}

DateParts ==
    JunkParts
    \cup {m \o <<"/">> \o d : m \in MonthToks, d \in DayToks}
    \cup {m \o <<"/">> \o d \o <<"/">> \o y : m \in MonthToks, d \in DayToks, y \in YearToks}

DateTexts == DateParts \cup {a \o sep \o b : a \in DateParts, sep \in DateSeps, b \in DateParts}

InitDate ==
    /\ dtxt \in DateTexts
    /\ dres = Pending
    /\ ctxt = <<>> /\ cres = Pending
    /\ page = <<>> /\ pres = Pending
    /\ files = <<>> /\ out = Pending /\ prev = Pending

ParseDateRange ==
    /\ dres = Pending
    /\ dres' = _parse_date_range(dtxt)
    /\ UNCHANGED <<ctxt, cres, dtxt, page, pres, files, out, prev>>

NextDate == ParseDateRange

SpecDate == InitDate /\ [][NextDate]_vars

\* --------------------------------------------------------- parse_html_bytes
(* A page is the sequence of its <tr> elements in document order; a <tr> is *)
(* the sequence of its <td> cells; a cell holds one text node and the href  *)
(* of its first <a>, if any (a sequence of URL chunks, or None).            *)
Cell(text, href) == [text |-> text, href |-> href]
Td(text) == Cell(text, None)

BASE_URL == <<"https://", "thetradeshowcalendar.com", "/ttn/", "index.php">>

\* urljoin(base, href): an absolute href stands, a relative one replaces the
\* last path segment of the base
urljoin(base, href) ==
    IF Head(href) = "https://" THEN href
    ELSE SubSeq(base, 1, Len(base) - 1) \o href

\* get_text(strip=True) and get_text(' ', strip=True) of a one-text-node cell
get_text(td) == Strip(td.text)

\* x or "" ; x or None
OrEmpty(x) == IF x = None THEN <<>> ELSE x
OrNone(x) == IF x = <<>> THEN None ELSE x

\* (cityraw.split(',', 1) + [None])[:2], then strip each part that is truthy
HasComma(t) == \E i \in 1..Len(t) : t[i] = ","
FirstComma(t) == CHOOSE i \in 1..Len(t) : t[i] = "," /\ \A j \in 1..(i - 1) : t[j] # ","
StripOrNone(x) == IF x = None \/ x = <<>> THEN None ELSE Strip(x)
CityOf(cityraw) ==
    StripOrNone(IF HasComma(cityraw) THEN SubSeq(cityraw, 1, FirstComma(cityraw) - 1)
                ELSE cityraw)
StateOf(cityraw) ==
    StripOrNone(IF HasComma(cityraw)
                THEN SubSeq(cityraw, FirstComma(cityraw) + 1, Len(cityraw))
                ELSE None)

\* date.isoformat(): 'YYYY-MM-DD', held as the number YYYYMMDD
isoformat(d) == d[1] * 10000 + d[2] * 100 + d[3]
IsoOrNone(d) == IF d = NoDate THEN NoInt ELSE isoformat(d)

\* the two early 'continue's of the row loop
Qualifies(tr) == Len(tr) >= 6 /\ get_text(tr[1]) # <<>>

\* _parse_date_range raises inside the loop for this row
RowRaises(tr) == Qualifies(tr) /\ _parse_date_range(get_text(tr[2])).st = "raised"

\* the dict appended for a qualifying row
RowRecord(tr) ==
    LET dates == _parse_date_range(get_text(tr[2])).val
        cityraw == get_text(tr[3])
    IN [name |-> get_text(tr[1]),
        url |-> IF tr[1].href = None \/ tr[1].href = <<>> THEN None
                ELSE urljoin(BASE_URL, tr[1].href),
        sd |-> IsoOrNone(dates[1]),
        ed |-> IsoOrNone(dates[2]),
        city |-> OrNone(Upper(OrEmpty(CityOf(cityraw)))),
        state |-> OrNone(Upper(OrEmpty(StateOf(cityraw)))),
        country |-> OrNone(Upper(OrEmpty(get_text(tr[4])))),
        att |-> _parse_count(get_text(tr[5])),
        exh |-> _parse_count(get_text(tr[6]))]

\* ------------------------------------------------------------------- inputs
MkRow(name, href, dates, city, country, att, exh) ==
    <<Cell(name, href), Td(dates), Td(city), Td(country), Td(att), Td(exh)>>

\* listings with sort keys (Exhibitors, Attendees, Start Date):
\*   Expo, Fair (100, 500, 2025-08-22)     Early (100, 500, 2025-01-02)
\*   Big (100, 1000, 2025-12-01)           Dome (100, absent, 2025-01-02)
\*   Half (50, 2000, 2025-08-22)           Gala (absent, 1000, 2025-12-28)
\* BadDay names a day that does not exist; Names and Now are footer rows,
\* Header a stray header row, CityOnly has the City 'city' alone, NoDate has
\* no date and NoName a blank name
RowExpo ==
    MkRow(<<"E", "x", "p", "o">>, <<"a1">>,
          <<"A", "U", "G", "/", "2", "2", " ", "-", " ", "A", "U", "G", "/", "2", "8", "/", "2", "0", "2", "5">>,
          <<"T", "a", "m", "p", "a", ",", " ", "F", "L">>, <<"u", "s", "a">>, <<"5", "0", "0", "+">>, <<"1", "0", "0">>)
RowFair ==
    MkRow(<<"F", "a", "i", "r">>, None,
          <<"A", "U", "G", "/", "2", "2", "/", "2", "0", "2", "5">>,
          <<"T", "a", "m", "p", "a", ",", " ", "F", "L">>, <<"U", "S", "A">>, <<"5", "0", "0">>, <<"1", "0", "0">>)
RowEarly ==
    MkRow(<<"E", "a", "r", "l", "y">>, <<"https://", "example.org/early">>,
          <<"J", "A", "N", "/", "0", "2", "/", "2", "0", "2", "5">>,
          <<"R", "e", "n", "o">>, <<"U", "S", "A">>, <<"5", "0", "0">>, <<"1", "0", "0">>)
RowBig ==
    MkRow(<<"B", "i", "g">>, None,
          <<"D", "E", "C", "/", "0", "1", "/", "2", "0", "2", "5">>,
          <<"R", "e", "n", "o">>, <<"U", "S", "A">>, <<"1", "k">>, <<"1", "0", "0">>)
RowDome ==
    MkRow(<<"D", "o", "m", "e">>, None,
          <<"J", "A", "N", "/", "0", "2", "/", "2", "0", "2", "5">>,
          <<"L", "y", "o", "n">>, <<"F", "r", "a", "n", "c", "e">>, <<>>, <<"1", "0", "0">>)
RowHalf ==
    MkRow(<<"H", "a", "l", "f">>, None,
          <<"A", "U", "G", "/", "2", "2", "/", "2", "0", "2", "5">>,
          <<"L", "y", "o", "n">>, <<"F", "r", "a", "n", "c", "e">>, <<"2", ",", "0", "0", "0">>, <<"4", "0", "-", "6", "0">>)
RowGala ==
    MkRow(<<"G", "a", "l", "a">>, None,
          <<"D", "E", "C", "/", "2", "8", " ", "-", " ", "J", "A", "N", "/", "0", "2", "/", "2", "0", "2", "5">>,
          <<"N", "o", "n", "e">>, <<>>, <<"1", "k">>, <<"N", "/", "A">>)
RowBadDay ==
    MkRow(<<"J", "a", "m">>, None,
          <<"F", "E", "B", "/", "3", "0", "/", "2", "0", "2", "5">>,
          <<"R", "e", "n", "o">>, <<"U", "S", "A">>, <<"5", "0", "0">>, <<"1", "0", "0">>)
RowNames ==
    MkRow(<<" ", "S", "h", "o", "w", " ", "N", "a", "m", "e", "s", " ", "A", "-", "Z">>, None,
          <<"A", "U", "G", "/", "2", "2", "/", "2", "0", "2", "5">>,
          <<"R", "e", "n", "o">>, <<"U", "S", "A">>, <<"5", "0", "0">>, <<"1", "0", "0">>)
RowNow ==
    MkRow(<<"N", "O", "W", " ", "S", "H", "O", "W", "I", "N", "G", " ", "1", "-", "2", "0">>, None,
          <<"A", "U", "G", "/", "2", "2", "/", "2", "0", "2", "5">>,
          <<"R", "e", "n", "o">>, <<"U", "S", "A">>, <<"5", "0", "0">>, <<"1", "0", "0">>)
RowHeader ==
    MkRow(<<"H", "a", "l", "l">>, None,
          <<"A", "U", "G", "/", "2", "2", "/", "2", "0", "2", "5">>,
          <<"C", "i", "t", "y">>, <<"C", "o", "u", "n", "t", "r", "y">>, <<"5", "0", "0">>, <<"1", "0", "0">>)
RowCityOnly ==
    MkRow(<<"K", "i", "t">>, None,
          <<"A", "U", "G", "/", "2", "2", "/", "2", "0", "2", "5">>,
          <<"c", "i", "t", "y">>, <<"U", "S", "A">>, <<"5", "0", "0">>, <<"1", "0", "0">>)
RowNoDate ==
    MkRow(<<"I", "n", "n">>, None,
          <<"T", "B", "D">>,
          <<"R", "e", "n", "o">>, <<"U", "S", "A">>, <<"5", "0", "0">>, <<"1", "0", "0">>)
RowNoName ==
    MkRow(<<" ", " ">>, None,
          <<"A", "U", "G", "/", "2", "2", "/", "2", "0", "2", "5">>,
          <<"R", "e", "n", "o">>, <<"U", "S", "A">>, <<"5", "0", "0">>, <<"1", "0", "0">>)
\* a row of three cells
RowShort == SubSeq(RowExpo, 1, 3)

\* A page names its rows: Rows[id] is the <tr> that the name stands for.
Rows == [Expo |-> RowExpo, Fair |-> RowFair, Early |-> RowEarly, Big |-> RowBig,
         Dome |-> RowDome, Half |-> RowHalf, Gala |-> RowGala, BadDay |-> RowBadDay,
         Names |-> RowNames, Now |-> RowNow, Header |-> RowHeader,
         CityOnly |-> RowCityOnly, NoDate |-> RowNoDate, NoName |-> RowNoName,
         Short |-> RowShort, NoCell |-> <<>>]

\* the rows of the aggregator's pages
RowPool == {"Expo", "Fair", "Early", "Big", "Dome", "Half", "Gala", "BadDay"}

\* the rows of the pages that hold noise
NoisePool == {"Expo", "Gala", "Names", "Now", "Header", "CityOnly", "NoDate"}

\* the rows of the page specification
PageRowPool == {"Expo", "Fair", "Gala", "Half", "BadDay", "Names", "NoDate",
                "NoName", "Short", "NoCell"}

\* DataFrame.drop_duplicates(): the first occurrence of each row is kept
RECURSIVE drop_duplicates(_)
drop_duplicates(rows) ==
    IF rows = <<>> THEN <<>>
    ELSE LET front == drop_duplicates(SubSeq(rows, 1, Len(rows) - 1))
             last == rows[Len(rows)]
         IN IF \E i \in 1..Len(front) : front[i] = last THEN front
            ELSE Append(front, last)

\* one pass of the row loop: nothing appended (continue), a dict appended,
\* or the ValueError of _parse_date_range
RowOutcome(tr) ==
    IF ~Qualifies(tr) THEN [st |-> "skip"]
    ELSE IF RowRaises(tr) THEN Raised("ValueError")
    ELSE Returned(RowRecord(tr))

\* RowOutcome of every row of the inputs, computed once
RowTable == [id \in DOMAIN Rows |-> RowOutcome(Rows[id])]

RECURSIVE LoopRows(_)
LoopRows(trs) ==
    IF trs = <<>> THEN <<>>
    ELSE IF RowTable[Head(trs)].st = "ok"
         THEN <<RowTable[Head(trs)].val>> \o LoopRows(Tail(trs))
    ELSE LoopRows(Tail(trs))

\* A DataFrame: whether it has the nine columns, and its rows.
\* pd.DataFrame([]) has no columns.
Frame(rows) == [cols |-> rows # <<>>, rows |-> rows]

parse_html_bytes(html) ==
    IF \E i \in 1..Len(html) : RowTable[html[i]].st = "raised" THEN Raised("ValueError")
    ELSE Returned(Frame(drop_duplicates(LoopRows(html))))

\* --------------------------------------------------------------- parse_many
StartsWith(s, pre) == Len(s) >= Len(pre) /\ SubSeq(s, 1, Len(pre)) = pre

SHOW_NAMES == <<"s", "h", "o", "w", " ", "n", "a", "m", "e", "s">>
NOW_SHOWING == <<"n", "o", "w", " ", "s", "h", "o", "w", "i", "n", "g">>
CITY == <<"c", "i", "t", "y">>
COUNTRY == <<"c", "o", "u", "n", "t", "r", "y">>

\* mutant of NameIsNoise: the pattern without (?i)
NameIsNoiseCaseSensitive(name) ==
    \/ StartsWith(LStrip(name), SHOW_NAMES)
    \/ StartsWith(LStrip(name), NOW_SHOWING)

\* str.match(r"(?i)^\s*(show names|now showing)")
NameIsNoise(name) ==
    \/ StartsWith(Lower(LStrip(name)), SHOW_NAMES)
    \/ StartsWith(Lower(LStrip(name)), NOW_SHOWING)

\* str.match(r"(?i)^\s*word$"): '$' also matches before one final newline
MatchesWord(text, word) ==
    \/ Lower(LStrip(text)) = word
    \/ Lower(LStrip(text)) = word \o <<"\n">>

\* df["Start Date"].notna() & ~name-is-noise
KeepDated(r) == r.sd # NoInt /\ ~NameIsNoise(OrEmpty(r.name))

\* ~City-is-'city' & ~Country-is-'country'
KeepNonHeader(r) ==
    /\ ~MatchesWord(OrEmpty(r.city), CITY)
    /\ ~MatchesWord(OrEmpty(r.country), COUNTRY)

\* fillna("").str.upper().replace({"NONE": ""})
NONE_TEXT == <<"N", "O", "N", "E">>
CanonText(x) == IF Upper(OrEmpty(x)) = NONE_TEXT THEN <<>> ELSE Upper(OrEmpty(x))
Canonicalize(r) ==
    [r EXCEPT !.city = CanonText(r.city),
              !.state = CanonText(r.state),
              !.country = CanonText(r.country)]

\* one sort key, ascending, NaN last: a goes strictly before b
AscBefore(a, b) == a # NoInt /\ (b = NoInt \/ a < b)
\* mutant of DescBefore: ascending=True for a key that sorts descending
DescBeforeAscending(a, b) == a # NoInt /\ (b = NoInt \/ a < b)
\* one sort key, descending, NaN last
DescBefore(a, b) == a # NoInt /\ (b = NoInt \/ a > b)

\* mutant of KeyBefore: sort_values(["Exhibitors"], ...), the first key alone
KeyBeforeExhibitorsOnly(a, b) == DescBefore(a.exh, b.exh)

\* sort_values(["Exhibitors","Attendees","Start Date"],
\*             ascending=[False, False, True], na_position="last")
KeyBefore(a, b) ==
    \/ DescBefore(a.exh, b.exh)
    \/ a.exh = b.exh /\ DescBefore(a.att, b.att)
    \/ a.exh = b.exh /\ a.att = b.att /\ AscBefore(a.sd, b.sd)

\* the lexsort is stable: a row goes after every row that is not after it
RECURSIVE InsertRow(_, _)
InsertRow(sorted, r) ==
    IF sorted = <<>> THEN <<r>>
    ELSE IF KeyBefore(r, Head(sorted)) THEN <<r>> \o sorted
    ELSE <<Head(sorted)>> \o InsertRow(Tail(sorted), r)

RECURSIVE sort_values(_)
sort_values(rows) ==
    IF rows = <<>> THEN <<>>
    ELSE InsertRow(sort_values(SubSeq(rows, 1, Len(rows) - 1)), rows[Len(rows)])

\* pd.concat(frames, ignore_index=True)
RECURSIVE ConcatRows(_)
ConcatRows(frames) ==
    IF frames = <<>> THEN <<>> ELSE Head(frames).rows \o ConcatRows(Tail(frames))
Concat(frames) ==
    [cols |-> \E i \in 1..Len(frames) : frames[i].cols, rows |-> ConcatRows(frames)]

\* the part of parse_many after the frames are built
Aggregate(frames) ==
    IF frames = <<>> THEN Returned([cols |-> TRUE, rows |-> <<>>])
    ELSE LET df == Concat(frames)
         IN IF ~df.cols THEN Raised("KeyError")
            ELSE LET dated == SelectSeq(df.rows, KeepDated)
                     kept == SelectSeq(dated, KeepNonHeader)
                     canon == [i \in 1..Len(kept) |-> Canonicalize(kept[i])]
                 IN Returned([cols |-> TRUE, rows |-> sort_values(canon)])

parse_many(fs) ==
    IF \E i \in 1..Len(fs) : parse_html_bytes(fs[i]).st = "raised"
    THEN Raised("ValueError")
    ELSE Aggregate([i \in 1..Len(fs) |-> parse_html_bytes(fs[i]).val])

\* the rows before page i of a collection whose pages have lens[j] rows
RECURSIVE RowsBefore(_, _)
RowsBefore(lens, i) == IF i = 1 THEN 0 ELSE RowsBefore(lens, i - 1) + lens[i - 1]
TotalRows(lens) == RowsBefore(lens, Len(lens) + 1)

\* the pages of lens[i] rows each that hold the rows of flat, in order
SplitPages(flat, lens) ==
    [i \in 1..Len(lens) |->
        SubSeq(flat, RowsBefore(lens, i) + 1, RowsBefore(lens, i) + lens[i])]

Reorderings(n) == {p \in [1..n -> 1..n] : \A i \in 1..n : \E j \in 1..n : p[j] = i}

\* ---------------------------------------------------- aggregator (app.py)
\* up to MaxFiles pages holding up to MaxRows rows of pool in all
InitWith(pool) ==
    /\ \E nf \in 0..MaxFiles : \E lens \in [1..nf -> 0..MaxRows] :
          /\ TotalRows(lens) <= MaxRows
          /\ \E flat \in [1..TotalRows(lens) -> pool] : files = SplitPages(flat, lens)
    /\ out = Pending /\ prev = Pending
    /\ ctxt = <<>> /\ cres = Pending
    /\ dtxt = <<>> /\ dres = Pending
    /\ page = <<>> /\ pres = Pending

Init == InitWith(RowPool)

\* the uploads are read and handed to parse_many
Run ==
    /\ out = Pending
    /\ out' = parse_many(files)
    /\ UNCHANGED <<files, prev, ctxt, cres, dtxt, dres, page, pres>>

\* the same files are dropped again in another order
Rerun ==
    /\ out # Pending /\ prev = Pending
    /\ \E p \in Reorderings(Len(files)) :
          /\ files' = [i \in 1..Len(files) |-> files[p[i]]]
          /\ files' # files
    /\ prev' = out
    /\ out' = parse_many(files')
    /\ UNCHANGED <<ctxt, cres, dtxt, dres, page, pres>>

Next == Run \/ Rerun

Spec == Init /\ [][Next]_vars

\* ---------------------------------------------- aggregator on noisy pages
InitNoise == InitWith(NoisePool)

NextNoise == Run

SpecNoise == InitNoise /\ [][NextNoise]_vars

\* ------------------------------------------------------ page specification

InitPage ==
    /\ page \in SeqsUpTo(PageRowPool, MaxPageRows)
    /\ pres = Pending
    /\ ctxt = <<>> /\ cres = Pending
    /\ dtxt = <<>> /\ dres = Pending
    /\ files = <<>> /\ out = Pending /\ prev = Pending

ParsePage ==
    /\ pres = Pending
    /\ pres' = parse_html_bytes(page)
    /\ UNCHANGED <<ctxt, cres, dtxt, dres, page, files, out, prev>>

NextPage == ParsePage

SpecPage == InitPage /\ [][NextPage]_vars

\* =================================================================== claims
OutRows == out.val.rows
InputRows == ConcatRows([i \in 1..Len(files) |-> [rows |-> files[i]]])

\* C1: the aggregated output of parse_many never holds two records that are
\* equal in all nine fields, however the rows are spread over the buffers.
C1_NoDuplicateRecords ==
    out.st = "ok" =>
        \A i, j \in 1..Len(OutRows) : i # j => OutRows[i] # OutRows[j]

\* C2: when no record is extracted (no buffer, or no qualifying row in any
\* page), parse_many returns the empty result and raises nothing.
NothingExtracted ==
    \A i \in 1..Len(files) : \A j \in 1..Len(files[i]) : ~Qualifies(Rows[files[i][j]])
C2_EmptyResultWhenNothingExtracted ==
    (out # Pending /\ NothingExtracted) => (out.st = "ok" /\ OutRows = <<>>)

\* C3: _parse_date_range returns a pair of optional dates for every text and
\* never raises.
C3_DateRangeNeverRaises == dres # Pending => dres.st = "ok"

\* C4: for a count text of the form <part>-<part>, _parse_count returns
\* floor((a+b)/2) when both parts parse (0 included), the one parsed value
\* when exactly one parses, and absent when neither does.
C4_RangeMidpoint ==
    (cres # Pending /\ ctxt # <<>> /\ IsRange(CountClean(ctxt))) =>
        LET a == _to_num(RangeLeft(CountClean(ctxt)))
            b == _to_num(RangeRight(CountClean(ctxt)))
        IN cres.val = IF a # NoInt /\ b # NoInt THEN (a + b) \div 2
                      ELSE IF a # NoInt THEN a
                      ELSE b

\* C5: the output is ordered by Exhibitors descending, then Attendees
\* descending, then Start Date ascending, an absent value after every present
\* one: no record is greater than the one after it under the three keys, and
\* no record without Exhibitors precedes one with Exhibitors.
AbsentLast(x) == IF x = NoInt THEN 1 ELSE 0
SortKey(r) == <<AbsentLast(r.exh), 0 - r.exh, AbsentLast(r.att), 0 - r.att,
                AbsentLast(r.sd), r.sd>>
RECURSIVE LexGreater(_, _)
LexGreater(k, l) ==
    /\ k # <<>>
    /\ \/ Head(k) > Head(l)
       \/ Head(k) = Head(l) /\ LexGreater(Tail(k), Tail(l))
C5_SortedByThreeKeys ==
    out.st = "ok" =>
        /\ \A i \in 1..(Len(OutRows) - 1) :
              ~LexGreater(SortKey(OutRows[i]), SortKey(OutRows[i + 1]))
        /\ \A i, j \in 1..Len(OutRows) :
              (i < j /\ OutRows[i].exh = NoInt) => OutRows[j].exh = NoInt
\* Exhibitors 100, 50 and absent come out in that order although the record
\* without Exhibitors was supplied first and the first record has no Attendees
C5_Witness ==
    /\ out.st = "ok" /\ Len(OutRows) = 3
    /\ InputRows[1] = "Gala"
    /\ OutRows[1].exh = 100 /\ OutRows[2].exh = 50 /\ OutRows[3].exh = NoInt
    /\ OutRows[3].att > OutRows[1].att
    /\ OutRows[1].att = NoInt

\* C6: no output record is a noise row: each has a Start Date, a Show Name
\* that does not begin with 'show names' or 'now showing' (any case, leading
\* whitespace allowed), and is not a header row with City 'city' and Country
\* 'country' (any case).
BeginsWithWord(name, word) ==
    \E k \in 0..Len(name) :
        /\ \A i \in 1..k : name[i] \in Spaces
        /\ Len(name) >= k + Len(word)
        /\ \A i \in 1..Len(word) : LowerChar(name[k + i]) = word[i]
IsWord(text, word) ==
    Len(text) = Len(word) /\ \A i \in 1..Len(word) : LowerChar(text[i]) = word[i]
C6_NoNoiseRows ==
    out.st = "ok" =>
        \A i \in 1..Len(OutRows) :
            /\ OutRows[i].sd # NoInt
            /\ ~BeginsWithWord(OutRows[i].name, SHOW_NAMES)
            /\ ~BeginsWithWord(OutRows[i].name, NOW_SHOWING)
            /\ ~(IsWord(OutRows[i].city, CITY) /\ IsWord(OutRows[i].country, COUNTRY))
\* a footer row, a listing and a header row go in; the listing alone comes out
C6_Witness ==
    /\ out.st = "ok"
    /\ InputRows = <<"Names", "Expo", "Header">>
    /\ Len(OutRows) = 1
    /\ OutRows[1].name = <<"E", "x", "p", "o">>

\* C7: whenever _parse_date_range returns both dates, Start Date <= End Date.
C7_StartNotAfterEnd ==
    (dres # Pending /\ dres.st = "ok"
        /\ dres.val[1] # NoDate /\ dres.val[2] # NoDate) =>
        isoformat(dres.val[1]) <= isoformat(dres.val[2])

\* C8: a part whose month token is not in MONTHS fails as a whole: the result
\* is the one obtained with that part replaced by unmatched text, so the year
\* written in it resolves nothing.
UNMATCHED == <<"T", "B", "D">>
BadMonth(part) ==
    /\ part # None
    /\ PartMatches(PartClean(part))
    /\ MonthGet(SubSeq(PartClean(part), 1, 3)) = NoInt
StartReplaced(t) == IF HasDash(t) THEN UNMATCHED \o <<"-">> \o EndPart(t) ELSE UNMATCHED
EndReplaced(t) == StartPart(t) \o <<"-">> \o UNMATCHED
C8_UnknownMonthFailsWholePart ==
    dres # Pending =>
        LET t == RangeClean(dtxt)
        IN /\ BadMonth(StartPart(t)) => dres = _parse_date_range(StartReplaced(t))
           /\ BadMonth(EndPart(t)) => dres = _parse_date_range(EndReplaced(t))

\* C9: the output of parse_many is the same sequence of records for every
\* order in which the buffers are supplied.
C9_SameSequenceInAnyOrder ==
    (prev # Pending /\ out # Pending) => out = prev

\* C9, amended: for every order of the buffers parse_many raises the same
\* error or returns the same records with the same multiplicities and the
\* same sequence of sort keys (Exhibitors, Attendees, Start Date); only
\* records that tie on all three keys may change places.
Occurrences(rows, r) == Cardinality({i \in 1..Len(rows) : rows[i] = r})
SameRecords(a, b) ==
    /\ Len(a) = Len(b)
    /\ \A i \in 1..Len(a) : Occurrences(a, a[i]) = Occurrences(b, a[i])
SameKeys(a, b) ==
    /\ Len(a) = Len(b)
    /\ \A i \in 1..Len(a) :
          /\ a[i].exh = b[i].exh
          /\ a[i].att = b[i].att
          /\ a[i].sd = b[i].sd
C9_SameRecordsAndKeysInAnyOrder ==
    (prev # Pending /\ out # Pending) =>
        /\ prev.st = out.st
        /\ out.st = "raised" => prev.exc = out.exc
        /\ out.st = "ok" => /\ SameRecords(prev.val.rows, OutRows)
                            /\ SameKeys(prev.val.rows, OutRows)
\* two buffers with records that tie on the three keys, supplied in both
\* orders: the same records come out in two different sequences
C9_Witness ==
    /\ prev # Pending /\ out # Pending
    /\ prev.st = "ok" /\ out.st = "ok"
    /\ Len(OutRows) >= 2
    /\ prev.val.rows # OutRows

\* C10: parse_html_bytes returns, without an error, exactly one record for
\* each distinct row that has at least 6 cells and a non-empty trimmed Show
\* Name, in document order of first occurrence, and nothing for other rows.
RECURSIVE QualifyingRecords(_)
QualifyingRecords(trs) ==
    IF trs = <<>> THEN <<>>
    ELSE LET tr == Rows[trs[Len(trs)]]
             front == QualifyingRecords(SubSeq(trs, 1, Len(trs) - 1))
         IN IF Len(tr) >= 6 /\ Strip(tr[1].text) # <<>>
               /\ ~\E i \in 1..Len(front) : front[i] = RowRecord(tr)
            THEN Append(front, RowRecord(tr))
            ELSE front
C10_OneRecordPerQualifyingRow ==
    pres # Pending => (pres.st = "ok" /\ pres.val.rows = QualifyingRecords(page))

====
